---- MODULE Spec2Model ----
(***************************************************************************)
(* Readout storage and range aggregation of go-smartmeter: the SQL         *)
(* storage backend (Insert, GetRange, GetAveragedRange), the bucket index  *)
(* computation (getRangeIndexes) and the projection handling.              *)
(*                                                                         *)
(* Instants are whole seconds counted from Go's zero time.Time             *)
(* (0001-01-01 00:00:00), so the zero instant is 0.  A "2006-01-02         *)
(* 15:04:05" text is the pair of its date part (a day number) and its      *)
(* clock part (a second of the day); a text that does not parse has a      *)
(* negative date part.  Float values are integers counting units of        *)
(* 1/(1000*Resolution), so 0.001 is Resolution units; the FLOAT columns    *)
(* hold the values of the model exactly.                                   *)
(***************************************************************************)
EXTENDS Integers, Sequences, FiniteSets, TLC

VARIABLES
    initialized,      \* SQL.initialized
    db,               \* SQL.db: "nil" or "conn"
    insertStatement,  \* SQL.insertStatement: "nil" or "stmt"
    keepAlives,       \* number of keepAlive goroutines started
    tables,           \* names of the tables of the database
    rows,             \* the rows of table readouts, in primary key order
    inserted,         \* the readouts of the Insert calls that returned
    halted,           \* "no", or how the process ended: "fatal", "panic"
    call,             \* the call that returned last and what it returned
    input,            \* a function alone: its arguments
    output,           \* a function alone: its result
    callers,          \* concurrent callers: each one's call and position in it
    foundStart,       \* collectTelegrams: foundStart
    collected,        \* collectTelegrams: telegram, the lines collected so far
    rChan,            \* collectTelegrams: the lines received on rChan so far
    tChan             \* collectTelegrams: the telegrams sent on tChan so far

vars == <<initialized, db, insertStatement, keepAlives, tables, rows,
          inserted, halted, call, input, output, callers, foundStart, collected,
          rChan, tChan>>

storeVars == <<initialized, db, insertStatement, keepAlives, tables, rows,
               inserted, halted, call>>

\* the state of collectTelegrams
collectVars == <<foundStart, collected, rChan, tChan>>

-----------------------------------------------------------------------------
(* Bounds of the model *)

\* rows the table holds at most
MaxRows == 2
\* records of a sequence handed to the bucketing at most
MaxLen == 3
\* largest averaging interval, in seconds
MaxInterval == 2
\* units per 0.001
Resolution == 2

-----------------------------------------------------------------------------
(* Time: time.Time, time.Duration and the layout "2006-01-02 15:04:05" *)

\* time.Time{}
ZeroTime == 0
\* time.Second
Second == 1
\* seconds of one day of the layout "2006-01-02 15:04:05"
SecondsPerDay == 86400

\* t.Format("2006-01-02")
FormatDate(t) == t \div SecondsPerDay

\* t.Format("15:04:05")
FormatTime(t) == t % SecondsPerDay

\* t.Format("2006-01-02 15:04:05")
Format(t) == [date |-> FormatDate(t), time |-> FormatTime(t)]

\* a text that is no "2006-01-02 15:04:05", such as the empty string
Malformed == [date |-> -1, time |-> 0]

\* time.Parse("2006-01-02 15:04:05", s): the zero instant on a parse error
Parse(s) ==
    IF s.date < 0 \/ s.time < 0 \/ s.time >= SecondsPerDay
    THEN ZeroTime
    ELSE s.date * SecondsPerDay + s.time

\* the comparison of two DATETIME values by the backend: a <= b
DatetimeLeq(a, b) == a.date < b.date \/ (a.date = b.date /\ a.time <= b.time)

\* the instants of the model: around a change of date
Times == {SecondsPerDay - 2, SecondsPerDay - 1, SecondsPerDay}

-----------------------------------------------------------------------------
(* DataRetrievalOption *)

All == 0
Gas == 1
Power == 2
Totals == 4

DataRetrievalOptions == {All, Gas, Power, Totals, Gas + Power, Gas + Totals, Power + Totals}

-----------------------------------------------------------------------------
(* ReadoutData and getRangeIndexes *)

\* the numeric fields of ReadoutData
NumericFields == {"PowerReceived", "PowerDelivered", "GasReceived",
                  "TotalPowerDeliveredLowTarif", "TotalPowerDeliveredPeakTarif",
                  "TotalPowerReceivedLowTarif", "TotalPowerReceivedPeakTarif"}

\* ReadoutData.getTimestamp: the cached instant, or the parsed Timestamp
getTimestamp(r) ==
    IF r.timestamp = ZeroTime THEN Parse(r.Timestamp) ELSE r.timestamp

RECURSIVE rangeLoop(_, _, _, _, _)
\* the loop of getRangeIndexes from index i on (indexes count from 0)
rangeLoop(readouts, interval, i, startKey, keys) ==
    LET numReadouts == Len(readouts) IN
    IF ~(i < numReadouts) THEN keys
    ELSE IF i = startKey THEN rangeLoop(readouts, interval, i + 1, startKey, keys)
    ELSE LET sTime == getTimestamp(readouts[startKey + 1])
             cTime == getTimestamp(readouts[i + 1])
         IN  IF sTime = ZeroTime
             THEN rangeLoop(readouts, interval, i + 1, startKey + 1, keys)
             ELSE IF cTime - sTime < interval /\ i < numReadouts - 1
             THEN rangeLoop(readouts, interval, i + 1, startKey, keys)
             ELSE LET j == IF i = numReadouts - 1 THEN i + 1 ELSE i
                  IN  rangeLoop(readouts, interval, j + 1, j,
                                Append(keys, [start |-> startKey, end |-> j - 1]))

\* getRangeIndexes(readouts, interval)
getRangeIndexes(readouts, interval) == rangeLoop(readouts, interval, 0, 0, <<>>)

\* math.Round(num/den) for den > 0: to the nearest integer, halves away from zero
Round(num, den) ==
    IF num >= 0 THEN (2 * num + den) \div (2 * den)
    ELSE -((2 * (-num) + den) \div (2 * den))

RECURSIVE sumField(_, _)
\* the += loop of GetAveragedRange over one field of currRange
sumField(currRange, f) ==
    IF currRange = <<>> THEN 0
    ELSE currRange[1][f] + sumField(Tail(currRange), f)

\* completeRange[start:end], a Go slice expression: indexes start .. end-1
slice(s, start, end) == SubSeq(s, start + 1, end)

\* math.Round(sum*1000/divisor) / 1000 of one field
averageField(currRange, f) ==
    Round(sumField(currRange, f), Resolution * Len(currRange)) * Resolution

\* the body of the loop over indexes of GetAveragedRange: the record of one bucket
averageBucket(completeRange, i) ==
    IF i.start = i.end THEN completeRange[i.start + 1]
    ELSE LET currRange == slice(completeRange, i.start, i.end)
         IN  [f \in NumericFields |-> averageField(currRange, f)] @@
             [timestamp |-> ZeroTime,
              Timestamp |-> currRange[1].Timestamp,
              Tarif |-> currRange[1].Tarif]

\* GetAveragedRange after the range query: bucketing and averaging
averageRanges(completeRange, interval) ==
    LET indexes == getRangeIndexes(completeRange, interval)
    IN  [k \in 1..Len(indexes) |-> averageBucket(completeRange, indexes[k])]

-----------------------------------------------------------------------------
(* Readout: the decoded telegram and its accessors *)

\* the telegrams of the model
Telegrams == {1, 2}

\* the values of telegram p, named as the dsmr accessors the Readout reads
telegram(p) ==
    [TariffIndicatorElectricity |-> p,
     ActualElectricityPowerDelivered |-> 10 * p + 1,
     ActualElectricityPowerReceived |-> 10 * p + 2,
     MeterReadingGasDeliveredToClient |-> 100 + (p \div 2),
     MeterReadingElectricityDeliveredToClientTariff1 |-> 10 * p + 4,
     MeterReadingElectricityDeliveredToClientTariff2 |-> 10 * p + 5,
     MeterReadingElectricityDeliveredByClientTariff1 |-> 10 * p + 6,
     MeterReadingElectricityDeliveredByClientTariff2 |-> 10 * p + 7]

\* the readouts handed to Insert
Readouts == {[Timestamp |-> t, telegram |-> telegram(p)] : t \in Times, p \in Telegrams}

PowerDelivered(r) == r.telegram.ActualElectricityPowerReceived
PowerReceived(r) == r.telegram.ActualElectricityPowerDelivered
GasReceived(r) == r.telegram.MeterReadingGasDeliveredToClient
TotalPowerReceivedLowTarif(r) == r.telegram.MeterReadingElectricityDeliveredToClientTariff1
TotalPowerReceivedPeakTarif(r) == r.telegram.MeterReadingElectricityDeliveredToClientTariff2
TotalPowerDeliveredLowTarif(r) == r.telegram.MeterReadingElectricityDeliveredByClientTariff1
TotalPowerDeliveredPeakTarif(r) == r.telegram.MeterReadingElectricityDeliveredByClientTariff2
CurrentTarif(r) == r.telegram.TariffIndicatorElectricity

-----------------------------------------------------------------------------
(* The table readouts and the statements run on it *)

\* the columns of CREATE TABLE readouts, in order
TableColumns ==
    <<"id", "timestamp", "date", "time", "tarif", "power_received",
      "power_deliverd", "gas_received", "total_power_received_low",
      "total_power_received_peak", "total_power_delivered_low",
      "total_power_delivered_peak">>

\* the columns the prepared INSERT sets, in the order of its placeholders
InsertColumns ==
    <<"timestamp", "date", "time", "tarif", "power_received", "power_deliverd",
      "gas_received", "total_power_received_low", "total_power_received_peak",
      "total_power_delivered_low", "total_power_delivered_peak">>

\* the arguments Insert hands to insertStatement.Exec, in order
InsertArgs(readout) ==
    <<Format(readout.Timestamp),
      FormatDate(readout.Timestamp),
      FormatTime(readout.Timestamp),
      CurrentTarif(readout),
      PowerReceived(readout),
      PowerDelivered(readout),
      GasReceived(readout),
      TotalPowerReceivedLowTarif(readout),
      TotalPowerReceivedPeakTarif(readout),
      TotalPowerDeliveredLowTarif(readout),
      TotalPowerDeliveredPeakTarif(readout)>>

\* the position of x in the sequence s
indexOf(s, x) == CHOOSE j \in DOMAIN s : s[j] = x

\* the table after the prepared INSERT ran with args: one more row, id by AUTO_INCREMENT
ExecInsert(table, args) ==
    Append(table,
           [c \in {TableColumns[j] : j \in DOMAIN TableColumns} |->
               IF c = "id" THEN Len(table) + 1
               ELSE args[indexOf(InsertColumns, c)]])

\* select expressions: a column, an aggregate of a column, or *
Col(c) == [fn |-> "", col |-> c]
Min(c) == [fn |-> "MIN", col |-> c]
Max(c) == [fn |-> "MAX", col |-> c]
Star == [fn |-> "*", col |-> ""]

\* fieldsFromDataRetrievalOption that selects * for every projection
fieldsAlwaysStar(retrieve) == <<Star>>

\* fieldsFromDataRetrievalOption(retrieve): the select list
fieldsFromDataRetrievalOption(retrieve) ==
    CASE retrieve = Gas ->
           <<Min("timestamp"), Max("gas_received")>>
      [] retrieve = Power ->
           <<Col("timestamp"), Col("power_received"), Col("power_deliverd")>>
      [] retrieve = Totals ->
           <<Col("timestamp"), Col("total_power_received_low"),
             Col("total_power_received_peak"), Col("total_power_delivered_low"),
             Col("total_power_delivered_peak")>>
      [] retrieve = Gas + Power ->
           <<Col("timestamp"), Col("gas_received"), Col("power_received"),
             Col("power_deliverd")>>
      [] retrieve = Gas + Totals ->
           <<Col("timestamp"), Col("gas_received"), Col("total_power_received_low"),
             Col("total_power_received_peak"), Col("total_power_delivered_low"),
             Col("total_power_delivered_peak")>>
      [] retrieve = Power + Totals ->
           <<Col("timestamp"), Col("power_received"), Col("power_deliverd"),
             Col("total_power_received_low"), Col("total_power_received_peak"),
             Col("total_power_delivered_low"), Col("total_power_delivered_peak")>>
      [] OTHER -> <<Star>>

\* groupingFromDataRetrievalOption(retrieve): the GROUP BY column, "" for none
groupingFromDataRetrievalOption(retrieve) ==
    IF retrieve = Gas THEN "gas_received" ELSE ""

\* where with the end of the range excluded: timestamp < ? for timestamp <= ?
whereEndExcluded(table, sarg, earg) ==
    SelectSeq(table, LAMBDA r : /\ DatetimeLeq(sarg, r["timestamp"])
                                /\ ~DatetimeLeq(earg, r["timestamp"]))

\* the rows of the table the WHERE clause keeps, in primary key order
where(table, sarg, earg) ==
    SelectSeq(table, LAMBDA r : /\ DatetimeLeq(sarg, r["timestamp"])
                                /\ DatetimeLeq(r["timestamp"], earg))

\* the select list with * replaced by the columns of the table
expand(fields) ==
    IF fields = <<Star>> THEN [j \in DOMAIN TableColumns |-> Col(TableColumns[j])]
    ELSE fields

\* a <= b for two values of column col
colLeq(col, a, b) == IF col = "timestamp" THEN DatetimeLeq(a, b) ELSE a <= b

\* the value of select expression e over the rows of one group
evalExpr(e, members) ==
    LET vals == {members[k][e.col] : k \in DOMAIN members} IN
    CASE e.fn = "MIN" -> CHOOSE m \in vals : \A o \in vals : colLeq(e.col, m, o)
      [] e.fn = "MAX" -> CHOOSE m \in vals : \A o \in vals : colLeq(e.col, o, m)
      [] OTHER -> members[1][e.col]

RECURSIVE firstSeen(_, _)
\* the distinct values of column col, in the order the scan meets them
firstSeen(s, col) ==
    IF s = <<>> THEN <<>>
    ELSE <<s[1][col]>> \o
         firstSeen(SelectSeq(Tail(s), LAMBDA r : r[col] # s[1][col]), col)

RECURSIVE sortAsc(_)
\* the numbers of S in ascending order
sortAsc(S) ==
    IF S = {} THEN <<>>
    ELSE LET m == CHOOSE x \in S : \A y \in S : x <= y
         IN  <<m>> \o sortAsc(S \ {m})

\* db.Query("SELECT fields FROM readouts WHERE timestamp >= ? AND timestamp <= ?"
\* + grouping, sarg, earg): the result rows, each a sequence of values.  The
\* statement has no ORDER BY: ungrouped rows come in primary key order; groups
\* come sorted by the grouping column when the server sorts groups
\* (implicitSort), and in the order the scan meets them otherwise.
Query(table, fields, grouping, sarg, earg, implicitSort) ==
    LET cols == expand(fields)
        matching == where(table, sarg, earg)
    IN  IF grouping = ""
        THEN [k \in 1..Len(matching) |->
                 [j \in 1..Len(cols) |-> evalExpr(cols[j], <<matching[k]>>)]]
        ELSE LET keys == IF implicitSort
                         THEN sortAsc({matching[k][grouping] : k \in DOMAIN matching})
                         ELSE firstSeen(matching, grouping)
             IN  [g \in 1..Len(keys) |->
                     LET members == SelectSeq(matching,
                                              LAMBDA r : r[grouping] = keys[g])
                     IN  [j \in 1..Len(cols) |-> evalExpr(cols[j], members)]]

\* the variables GetRange scans into, declared before the loop over the rows
scanVars ==
    [ts |-> Malformed, d |-> 0, t |-> 0, id |-> 0, tarif |-> 0,
     pRec |-> 0, pDel |-> 0, gRec |-> 0,
     TPDL |-> 0, TPDP |-> 0, TPRL |-> 0, TPRP |-> 0]

\* scanTargets with the delivered totals scanned before the received totals
scanTargetsTotalsSwapped(retrieve) ==
    CASE retrieve = Gas -> <<"ts", "gRec">>
      [] retrieve = Power -> <<"ts", "pRec", "pDel">>
      [] retrieve = Totals -> <<"ts", "TPRL", "TPRP", "TPDL", "TPDP">>
      [] retrieve = Gas + Power -> <<"ts", "gRec", "pRec", "pDel">>
      [] retrieve = Gas + Totals -> <<"ts", "gRec", "TPRL", "TPRP", "TPDL", "TPDP">>
      [] retrieve = Power + Totals ->
           <<"ts", "pRec", "pDel", "TPRL", "TPRP", "TPDL", "TPDP">>
      [] OTHER -> <<"id", "ts", "d", "t", "tarif", "pRec", "pDel", "gRec",
                    "TPDL", "TPDP", "TPRL", "TPRP">>

\* the destinations of rows.Scan in the switch of GetRange, in order
scanTargets(retrieve) ==
    CASE retrieve = Gas -> <<"ts", "gRec">>
      [] retrieve = Power -> <<"ts", "pRec", "pDel">>
      [] retrieve = Totals -> <<"ts", "TPRL", "TPRP", "TPDL", "TPDP">>
      [] retrieve = Gas + Power -> <<"ts", "gRec", "pRec", "pDel">>
      [] retrieve = Gas + Totals -> <<"ts", "gRec", "TPRL", "TPRP", "TPDL", "TPDP">>
      [] retrieve = Power + Totals ->
           <<"ts", "pRec", "pDel", "TPRL", "TPRP", "TPDL", "TPDP">>
      [] OTHER -> <<"id", "ts", "d", "t", "tarif", "pRec", "pDel", "gRec",
                    "TPRL", "TPRP", "TPDL", "TPDP">>

\* rows.Scan(dest...): each value to the destination at its position; with a
\* wrong number of destinations Scan fails, its error is dropped and nothing is stored
Scan(v, dest, values) ==
    IF Len(dest) # Len(values) THEN v
    ELSE [x \in DOMAIN v |->
             IF \E j \in DOMAIN dest : dest[j] = x
             THEN values[indexOf(dest, x)]
             ELSE v[x]]

\* the ReadoutData GetRange appends from the scanned variables
readoutDataFromVars(v) ==
    [timestamp |-> ZeroTime,
     Timestamp |-> v.ts,
     Tarif |-> v.tarif,
     PowerReceived |-> v.pRec,
     PowerDelivered |-> v.pDel,
     GasReceived |-> v.gRec,
     TotalPowerReceivedLowTarif |-> v.TPRL,
     TotalPowerReceivedPeakTarif |-> v.TPRP,
     TotalPowerDeliveredLowTarif |-> v.TPDL,
     TotalPowerDeliveredPeakTarif |-> v.TPDP]

RECURSIVE scanRows(_, _, _, _)
\* the loop for rows.Next() of GetRange
scanRows(result, retrieve, v, data) ==
    IF result = <<>> THEN data
    ELSE LET scanned == Scan(v, scanTargets(retrieve), result[1])
         IN  scanRows(Tail(result), retrieve, scanned,
                      Append(data, readoutDataFromVars(scanned)))

\* GetRange that returns a nil error when the backend rejects the query
GetRangeSwallowsErr(table, start, end, retrieve, queryErr, implicitSort) ==
    [data |-> IF queryErr THEN <<>>
              ELSE scanRows(Query(table, fieldsFromDataRetrievalOption(retrieve),
                                  groupingFromDataRetrievalOption(retrieve),
                                  Format(start), Format(end), implicitSort),
                            retrieve, scanVars, <<>>),
     err |-> "nil"]

\* GetRange(start, end, retrieve) on the table, after ensureInitialized; queryErr:
\* the backend rejects the query
GetRangeResult(table, start, end, retrieve, queryErr, implicitSort) ==
    LET sarg == Format(start)
        earg == Format(end)
        fields == fieldsFromDataRetrievalOption(retrieve)
        grouping == groupingFromDataRetrievalOption(retrieve)
    IN  IF queryErr THEN [data |-> <<>>, err |-> "query error"]
        ELSE [data |-> scanRows(Query(table, fields, grouping, sarg, earg, implicitSort),
                                retrieve, scanVars, <<>>),
              err |-> "nil"]

\* GetAveragedRange without the return for an interval of one second
GetAveragedRangeAlwaysAverages(table, start, end, interval, retrieve, queryErr, sorts) ==
    LET got == GetRangeResult(table, start, end, retrieve, queryErr, sorts)
    IN  IF got.err # "nil" THEN got
        ELSE [data |-> averageRanges(got.data, interval), err |-> "nil"]

\* GetAveragedRange(start, end, interval, retrieve) on the table, after ensureInitialized
GetAveragedRangeResult(table, start, end, interval, retrieve, queryErr, implicitSort) ==
    LET got == GetRangeResult(table, start, end, retrieve, queryErr, implicitSort)
    IN  IF got.err # "nil" \/ interval = Second THEN got
        ELSE [data |-> averageRanges(got.data, interval), err |-> "nil"]

-----------------------------------------------------------------------------
(* The storage backend: Insert, GetRange, GetAveragedRange on one SQL value *)

\* no call has returned a result the caller still holds
NoCall == [op |-> "none"]

\* the bucketing alone is not in use
NoInput == [readouts |-> <<>>, interval |-> 0, used |-> FALSE]
NoOutput == [done |-> FALSE, indexes |-> <<>>, averaged |-> <<>>]

\* no concurrent callers are in use
NoCallers == <<>>

\* the steps of initialize that can panic
InitErrs == {"open", "tables", "prepare"}

\* the projections handed to the range queries
Retrievals == All..(Gas + Power + Totals)

\* the averaging intervals handed to GetAveragedRange, in seconds
Intervals == Second..MaxInterval

\* initialize() running to its end: connection, table, statement, flag, keepAlive
initialize ==
    /\ db' = "conn"
    /\ tables' = tables \cup {"readouts"}
    /\ insertStatement' = "stmt"
    /\ initialized' = TRUE
    /\ keepAlives' = keepAlives + 1

\* ensureInitialized that runs initialize on every call
ensureInitializedAlways == initialize

\* ensureInitialized() of a call that goes on
ensureInitialized ==
    IF ~initialized THEN initialize
    ELSE UNCHANGED <<db, tables, insertStatement, initialized, keepAlives>>

\* a call whose ensureInitialized panics in initialize at step initErr
InitPanics(initErr) ==
    /\ halted = "no"
    /\ call = NoCall
    /\ ~initialized
    /\ db' = IF initErr = "open" THEN db ELSE "conn"
    /\ tables' = IF initErr = "prepare" THEN tables \cup {"readouts"} ELSE tables
    /\ halted' = "panic"
    /\ UNCHANGED <<initialized, insertStatement, keepAlives, rows, inserted, call,
                   input, output, callers, collectVars>>

\* Insert that returns to its caller when the backend rejects the insert
InsertReturnsOnError(readout, execErr) ==
    /\ halted = "no"
    /\ call = NoCall
    /\ Len(inserted) < MaxRows
    /\ ensureInitialized
    /\ rows' = IF execErr THEN rows ELSE ExecInsert(rows, InsertArgs(readout))
    /\ inserted' = Append(inserted, readout)
    /\ UNCHANGED <<halted, call, input, output, callers, collectVars>>

\* Insert(readout); execErr: the backend rejects the insert, log.Fatal ends the process
Insert(readout, execErr) ==
    /\ halted = "no"
    /\ call = NoCall
    /\ Len(rows) < MaxRows
    /\ ensureInitialized
    /\ IF execErr
       THEN /\ halted' = "fatal"
            /\ UNCHANGED <<rows, inserted>>
       ELSE /\ rows' = ExecInsert(rows, InsertArgs(readout))
            /\ inserted' = Append(inserted, readout)
            /\ UNCHANGED halted
    /\ UNCHANGED <<call, input, output, callers, collectVars>>

\* GetRange(start, end, retrieve)
GetRange(start, end, retrieve, queryErr, implicitSort) ==
    /\ halted = "no"
    /\ call = NoCall
    /\ ensureInitialized
    /\ call' = [op |-> "GetRange", start |-> start, end |-> end,
                interval |-> 0, retrieve |-> retrieve, queryErr |-> queryErr,
                implicitSort |-> implicitSort] @@
               GetRangeResult(rows, start, end, retrieve, queryErr, implicitSort)
    /\ UNCHANGED <<rows, inserted, halted, input, output, callers, collectVars>>

\* GetAveragedRange(start, end, interval, retrieve)
GetAveragedRange(start, end, interval, retrieve, queryErr, implicitSort) ==
    /\ halted = "no"
    /\ call = NoCall
    /\ ensureInitialized
    /\ call' = [op |-> "GetAveragedRange", start |-> start, end |-> end,
                interval |-> interval, retrieve |-> retrieve, queryErr |-> queryErr,
                implicitSort |-> implicitSort] @@
               GetAveragedRangeResult(rows, start, end, interval, retrieve,
                                      queryErr, implicitSort)
    /\ UNCHANGED <<rows, inserted, halted, input, output, callers, collectVars>>

\* the caller is done with the result and is free to call again
Return ==
    /\ call # NoCall
    /\ call' = NoCall
    /\ UNCHANGED <<initialized, db, insertStatement, keepAlives, tables, rows,
                   inserted, halted, input, output, callers, collectVars>>

\* the backend's choices that can show in the result of a range query
BackendChoices(retrieve) ==
    {<<TRUE, FALSE>>, <<FALSE, FALSE>>} \cup
    (IF retrieve = Gas THEN {<<FALSE, TRUE>>} ELSE {})

Init ==
    /\ initialized = FALSE
    /\ db = "nil"
    /\ insertStatement = "nil"
    /\ keepAlives = 0
    /\ tables = {}
    /\ rows = <<>>
    /\ inserted = <<>>
    /\ halted = "no"
    /\ call = NoCall
    /\ input = NoInput
    /\ output = NoOutput
    /\ callers = NoCallers
    /\ foundStart = FALSE
    /\ collected = <<>>
    /\ rChan = <<>>
    /\ tChan = <<>>

Next ==
    \/ \E initErr \in InitErrs : InitPanics(initErr)
    \/ \E readout \in Readouts, execErr \in BOOLEAN : Insert(readout, execErr)
    \/ \E start \in Times, end \in Times, retrieve \in Retrievals :
         \E b \in BackendChoices(retrieve) :
           GetRange(start, end, retrieve, b[1], b[2])
    \/ \E start \in Times, end \in Times, interval \in Intervals,
          retrieve \in Retrievals :
         \E b \in BackendChoices(retrieve) :
           GetAveragedRange(start, end, interval, retrieve, b[1], b[2])
    \/ Return

Spec == Init /\ [][Next]_vars

-----------------------------------------------------------------------------
(* The bucketing alone: averageRanges applied to sequences of records *)

\* the texts of the Timestamp field of the records handed to the bucketing
TimestampTexts == {Format(t) : t \in Times \cup {SecondsPerDay + 1}} \cup {Malformed}

\* a record as GetRange builds it, with field values that differ by field
record(text, v) ==
    [timestamp |-> ZeroTime,
     Timestamp |-> text,
     Tarif |-> v,
     PowerReceived |-> v,
     PowerDelivered |-> v + 1,
     GasReceived |-> 2 * v + 1,
     TotalPowerReceivedLowTarif |-> 3 * v,
     TotalPowerReceivedPeakTarif |-> 3 * v + 1,
     TotalPowerDeliveredLowTarif |-> 5 * v,
     TotalPowerDeliveredPeakTarif |-> 5 * v + 3]

\* the records handed to the bucketing
Records == {record(text, v) : text \in TimestampTexts, v \in {1, 2}}

\* sequences of at most n elements of S
SeqsUpTo(S, n) == UNION {[1..k -> S] : k \in 0..n}

\* five records one second apart with PowerReceived 1.000 .. 5.000, interval 5 s
FiveRecords ==
    [readouts |-> [k \in 1..5 |->
                      [record(Format(SecondsPerDay - 3 + k), k)
                          EXCEPT !.PowerReceived = k * 1000 * Resolution]],
     interval |-> 5,
     used |-> TRUE]

\* the inputs of the bucketing: the interval is not one second
Inputs ==
    {[readouts |-> s, interval |-> i, used |-> TRUE] :
        s \in SeqsUpTo(Records, MaxLen), i \in (0..MaxInterval) \ {Second}}
    \cup {FiveRecords}

\* GetAveragedRange from getRangeIndexes on, applied to the input
Bucketize ==
    /\ input.used
    /\ ~output.done
    /\ output' = [done |-> TRUE,
                  indexes |-> getRangeIndexes(input.readouts, input.interval),
                  averaged |-> averageRanges(input.readouts, input.interval)]
    /\ UNCHANGED <<storeVars, input, callers, collectVars>>

InitBucket ==
    /\ initialized = TRUE
    /\ db = "conn"
    /\ insertStatement = "stmt"
    /\ keepAlives = 1
    /\ tables = {"readouts"}
    /\ rows = <<>>
    /\ inserted = <<>>
    /\ halted = "no"
    /\ call = NoCall
    /\ input \in Inputs
    /\ output = NoOutput
    /\ callers = NoCallers
    /\ foundStart = FALSE
    /\ collected = <<>>
    /\ rChan = <<>>
    /\ tChan = <<>>

NextBucket == Bucketize

SpecBucket == InitBucket /\ [][NextBucket]_vars

-----------------------------------------------------------------------------
(* Properties of the bucketing and the averaging, under SpecBucket *)

\* the records of the input that bucket b holds, end included
bucketRecords(b) == SubSeq(input.readouts, b.start + 1, b.end + 1)

\* sum/n of field f over the records of s, rounded to three decimals
roundedMean(s, f) == Round(sumField(s, f), Resolution * Len(s)) * Resolution

\* the timestamps of s parse and do not decrease
ascendingParsable(s) ==
    \A k \in DOMAIN s :
        /\ getTimestamp(s[k]) # ZeroTime
        /\ k > 1 => getTimestamp(s[k - 1]) <= getTimestamp(s[k])

\* the inclusive ranges of keys follow one another from index 0 to index n-1
contiguousCover(keys, n) ==
    /\ Len(keys) >= 1
    /\ keys[1].start = 0
    /\ keys[Len(keys)].end = n - 1
    /\ \A k \in DOMAIN keys :
        /\ keys[k].start <= keys[k].end
        /\ k > 1 => keys[k].start = keys[k - 1].end + 1

\* C1: five records one second apart with PowerReceived 1..5, averaged at an
\* interval of 5 seconds, give exactly one record, whose PowerReceived is 3.000.
C1_FiveRecordsGiveThree ==
    (output.done /\ input = FiveRecords) =>
        /\ Len(output.averaged) = 1
        /\ output.averaged[1].PowerReceived = 3000 * Resolution

\* C2: for every bucket of getRangeIndexes with n > 1 records, each numeric field
\* of the record emitted for it is the sum of the field over all n records of the
\* bucket divided by n, rounded to three decimals.
C2_BucketIsRoundedMean ==
    output.done =>
        \A k \in DOMAIN output.indexes :
            LET b == output.indexes[k] IN
            (b.end - b.start + 1 > 1) =>
                \A f \in NumericFields :
                    output.averaged[k][f] = roundedMean(bucketRecords(b), f)

\* C3: for a non-empty sequence of records with ascending parsable timestamps and
\* any interval, the buckets of getRangeIndexes are contiguous from index 0 to the
\* last index, so they cover every index exactly once.
C3_BucketsCoverInput ==
    (output.done /\ input.readouts # <<>> /\ ascendingParsable(input.readouts)) =>
        contiguousCover(output.indexes, Len(input.readouts))

-----------------------------------------------------------------------------
(* Properties of the range queries, under Spec *)

\* the range query of the call that returned, run again on the table
rangeOfCall ==
    GetRangeResult(rows, call.start, call.end, call.retrieve, call.queryErr,
                   call.implicitSort)

\* the rows of the table whose timestamp lies in [start, end] of the call
rowsInRange ==
    {i \in DOMAIN rows :
        /\ call.start <= Parse(rows[i]["timestamp"])
        /\ Parse(rows[i]["timestamp"]) <= call.end}

\* record d shows row i of the table
showsRow(d, i) ==
    /\ d.Timestamp = rows[i]["timestamp"]
    /\ d.Tarif = rows[i]["tarif"]
    /\ d.GasReceived = rows[i]["gas_received"]

\* C4: when the range query returns exactly one record and the interval is not
\* one second, GetAveragedRange returns exactly that one record.
C4_SingleRecordUnchanged ==
    (/\ call.op = "GetAveragedRange"
     /\ call.interval # Second
     /\ ~call.queryErr
     /\ Len(rangeOfCall.data) = 1) =>
        call.data = rangeOfCall.data

\* C5: GetAveragedRange with an interval of one second returns exactly the
\* sequence and the error GetRange returns for the same range and projection.
C5_OneSecondIsGetRange ==
    (call.op = "GetAveragedRange" /\ call.interval = Second) =>
        /\ call.data = rangeOfCall.data
        /\ call.err = rangeOfCall.err

\* C5 witness: an averaged query at one second that returned several records
C5_Witness ==
    /\ call.op = "GetAveragedRange"
    /\ call.interval = Second
    /\ call.err = "nil"
    /\ Len(call.data) >= 2

\* C6: with projection All, a GetRange the backend answers returns a nil error
\* and one record for each row with start <= t <= end, and no other record.
C6_RangeIsInclusive ==
    (call.op = "GetRange" /\ call.retrieve = All /\ ~call.queryErr) =>
        /\ call.err = "nil"
        /\ Len(call.data) = Cardinality(rowsInRange)
        /\ \E m \in [DOMAIN call.data -> rowsInRange] :
            /\ \A j, k \in DOMAIN call.data : m[j] = m[k] => j = k
            /\ \A j \in DOMAIN call.data : showsRow(call.data[j], m[j])

\* C6 witness: a range [T, T] with one row at T and another row outside it
C6_Witness ==
    /\ call.op = "GetRange"
    /\ call.retrieve = All
    /\ call.start = call.end
    /\ Len(rows) = 2
    /\ Len(call.data) = 1
    /\ Parse(call.data[1].Timestamp) = call.start

\* C7: for every projection, Gas alone included, GetRange returns as many records
\* as the table holds rows in [start, end].
C7_AllRowsForEveryProjection ==
    (call.op = "GetRange" /\ ~call.queryErr) =>
        Len(call.data) = Cardinality(rowsInRange)

\* C8: the records one GetRange returns are in non-decreasing timestamp order,
\* whatever the order of the Inserts.  Stated for the projection All, whose
\* result does not rest on the order in which the server returns groups.
C8_ResultAscending ==
    (call.op = "GetRange" /\ call.retrieve = All) =>
        \A k \in DOMAIN call.data :
            k > 1 => Parse(call.data[k - 1].Timestamp) <= Parse(call.data[k].Timestamp)

\* record d holds the values of readout r, field by field
holdsReadout(d, r) ==
    /\ d.Timestamp = Format(r.Timestamp)
    /\ d.Tarif = CurrentTarif(r)
    /\ d.PowerReceived = PowerReceived(r)
    /\ d.PowerDelivered = PowerDelivered(r)
    /\ d.GasReceived = GasReceived(r)
    /\ d.TotalPowerReceivedLowTarif = TotalPowerReceivedLowTarif(r)
    /\ d.TotalPowerReceivedPeakTarif = TotalPowerReceivedPeakTarif(r)
    /\ d.TotalPowerDeliveredLowTarif = TotalPowerDeliveredLowTarif(r)
    /\ d.TotalPowerDeliveredPeakTarif = TotalPowerDeliveredPeakTarif(r)

\* C9: after Insert(r), a GetRange with projection All whose range covers r's
\* timestamp returns a record whose seven numeric fields and tariff equal r's.
C9_RoundTrip ==
    (call.op = "GetRange" /\ call.retrieve = All /\ ~call.queryErr) =>
        \A k \in DOMAIN inserted :
            (call.start <= inserted[k].Timestamp /\ inserted[k].Timestamp <= call.end) =>
                \E j \in DOMAIN call.data : holdsReadout(call.data[j], inserted[k])

\* C9 witness: two different readouts inserted and both returned
C9_Witness ==
    /\ call.op = "GetRange"
    /\ call.retrieve = All
    /\ Len(inserted) = 2
    /\ inserted[1].telegram # inserted[2].telegram
    /\ Len(call.data) = 2

\* the groups a projection selects
selectsGas(retrieve) == retrieve \in {Gas, Gas + Power, Gas + Totals}
selectsPower(retrieve) == retrieve \in {Power, Gas + Power, Power + Totals}
selectsTotals(retrieve) == retrieve \in {Totals, Gas + Totals, Power + Totals}

\* record d has the selected groups of row i and zero in every other field
projectsRow(d, i, retrieve) ==
    /\ d.Timestamp = rows[i]["timestamp"]
    /\ d.GasReceived = IF selectsGas(retrieve) THEN rows[i]["gas_received"] ELSE 0
    /\ d.PowerReceived = IF selectsPower(retrieve) THEN rows[i]["power_received"] ELSE 0
    /\ d.PowerDelivered = IF selectsPower(retrieve) THEN rows[i]["power_deliverd"] ELSE 0
    /\ d.TotalPowerReceivedLowTarif =
         IF selectsTotals(retrieve) THEN rows[i]["total_power_received_low"] ELSE 0
    /\ d.TotalPowerReceivedPeakTarif =
         IF selectsTotals(retrieve) THEN rows[i]["total_power_received_peak"] ELSE 0
    /\ d.TotalPowerDeliveredLowTarif =
         IF selectsTotals(retrieve) THEN rows[i]["total_power_delivered_low"] ELSE 0
    /\ d.TotalPowerDeliveredPeakTarif =
         IF selectsTotals(retrieve) THEN rows[i]["total_power_delivered_peak"] ELSE 0

\* C10: for each narrowing projection, every record GetRange returns has the
\* fields of the selected groups equal to a stored row's values and every numeric
\* field outside the selected groups equal to zero.
C10_ProjectionShapesRecord ==
    (call.op = "GetRange" /\ call.retrieve \in DataRetrievalOptions \ {All}) =>
        \A j \in DOMAIN call.data :
            \E i \in rowsInRange : projectsRow(call.data[j], i, call.retrieve)

\* C10 witness: narrowed queries that returned records of rows with different values
C10_Witness ==
    /\ call.op = "GetRange"
    /\ call.retrieve = Power + Totals
    /\ Len(call.data) = 2
    /\ call.data[1].PowerReceived # call.data[2].PowerReceived

-----------------------------------------------------------------------------
(* C11: when the backend rejects the range query, GetRange returns an empty
   sequence with a non-nil error, GetAveragedRange returns the same for every
   interval, and the process goes on *)
C11_QueryErrorSurfaces ==
    (call # NoCall /\ call.queryErr) =>
        /\ call.data = <<>>
        /\ call.err # "nil"
        /\ halted = "no"

\* GetAveragedRange over a non-empty store, with an averaging interval, was rejected
C11_Witness ==
    /\ call # NoCall
    /\ call.op = "GetAveragedRange"
    /\ call.queryErr
    /\ call.interval # Second
    /\ Len(rows) >= 1
    /\ call.data = <<>>
    /\ call.err = "query error"

-----------------------------------------------------------------------------
(* C12: every Insert call that returned to its caller left its reading as one
   row of the store, in call order; a call that stored no row ended the process *)
C12_InsertStoresOrHalts ==
    /\ Len(rows) = Len(inserted)
    /\ \A k \in DOMAIN inserted :
           /\ rows[k].id = k
           /\ \A j \in DOMAIN InsertColumns :
                  rows[k][InsertColumns[j]] = InsertArgs(inserted[k])[j]

\* one Insert stored its row and returned, the next one met a write error
C12_Witness ==
    /\ halted = "fatal"
    /\ Len(inserted) = 1
    /\ Len(rows) = 1

-----------------------------------------------------------------------------
(* C13: over a sequence of Insert, GetRange and GetAveragedRange calls made one
   after the other, the first call that gets through runs initialize (connection,
   schema, insert statement, one keep-alive task) and no later call runs any of
   its steps again *)
C13_InitializeOnce ==
    [][/\ (~initialized /\ halted' # "panic") =>
              /\ initialized'
              /\ db' = "conn"
              /\ tables' = {"readouts"}
              /\ insertStatement' = "stmt"
              /\ keepAlives' = 1
       /\ initialized =>
              UNCHANGED <<initialized, db, tables, insertStatement, keepAlives>>]_vars

\* three calls were made one after the other: two Inserts and a range query
C13_Witness ==
    /\ initialized
    /\ keepAlives = 1
    /\ Len(rows) = 2
    /\ call # NoCall

-----------------------------------------------------------------------------
(* The functions at the boundary: NewDataRetrievalOption, ReadoutsToJSON,
   StringToTime, each applied once to an input *)

\* the integers handed to NewDataRetrievalOption: -MaxOption .. MaxOption
MaxOption == 9

\* NewDataRetrievalOption with the upper bound compared by > instead of >=
NewDataRetrievalOptionKeepsSum(i) ==
    IF i > Gas + Power + Totals \/ i <= All THEN All ELSE i

\* NewDataRetrievalOption(i)
NewDataRetrievalOption(i) ==
    IF i >= Gas + Power + Totals \/ i <= All THEN All ELSE i

\* the inputs of NewDataRetrievalOption
OptionInputs == {[fn |-> "NewDataRetrievalOption", i |-> i] : i \in -MaxOption..MaxOption}

\* NewDataRetrievalOption applied to the input
NewOption ==
    /\ input.fn = "NewDataRetrievalOption"
    /\ ~output.done
    /\ output' = [done |-> TRUE, value |-> NewDataRetrievalOption(input.i)]
    /\ UNCHANGED <<storeVars, input, callers, collectVars>>

\* m[k] = v on a Go map
put(m, k, v) == [x \in DOMAIN m \cup {k} |-> IF x = k THEN v ELSE m[x]]

addGasToMap(m, r) == put(m, "GasReceived", r.GasReceived)

addPowerToMap(m, r) ==
    put(put(m, "PowerReceived", r.PowerReceived), "PowerDelivered", r.PowerDelivered)

addTotalsToMap(m, r) ==
    put(put(put(put(m, "TotalPowerDeliveredLowTarif", r.TotalPowerDeliveredLowTarif),
                "TotalPowerDeliveredPeakTarif", r.TotalPowerDeliveredPeakTarif),
            "TotalPowerReceivedLowTarif", r.TotalPowerReceivedLowTarif),
        "TotalPowerReceivedPeakTarif", r.TotalPowerReceivedPeakTarif)

\* the exported fields of ReadoutData, the ones json.Marshal writes for the struct
ExportedFields == {"Timestamp", "Tarif"} \cup NumericFields

\* the JSON object json.Marshal writes for a ReadoutData value
marshalReadoutData(v) == [f \in ExportedFields |-> v[f]]

\* the map ReadoutsToJSON fills for record v, before the test of its length
jsonMap(v, retrieve) ==
    LET o == put(<<>>, "Timestamp", v.Timestamp)
    IN  CASE retrieve = Gas -> addGasToMap(o, v)
          [] retrieve = Power -> addPowerToMap(o, v)
          [] retrieve = Totals -> addTotalsToMap(o, v)
          [] retrieve = Gas + Power -> addPowerToMap(addGasToMap(o, v), v)
          [] retrieve = Gas + Totals -> addTotalsToMap(addGasToMap(o, v), v)
          [] retrieve = Power + Totals -> addTotalsToMap(addPowerToMap(o, v), v)
          [] OTHER -> o

\* ReadoutsToJSON that never falls back to the whole record
ReadoutsToJSONMapOnly(readouts, retrieve) ==
    [k \in DOMAIN readouts |-> jsonMap(readouts[k], retrieve)]

\* ReadoutsToJSON(readouts, retrieve): the array of objects that is marshalled
ReadoutsToJSON(readouts, retrieve) ==
    [k \in DOMAIN readouts |->
        LET o == jsonMap(readouts[k], retrieve)
        IN  IF Cardinality(DOMAIN o) > 1 THEN o ELSE marshalReadoutData(readouts[k])]

\* the inputs of ReadoutsToJSON
JSONInputs ==
    {[fn |-> "ReadoutsToJSON", readouts |-> s, retrieve |-> o] :
        s \in SeqsUpTo(Records, MaxRows), o \in Retrievals}

\* ReadoutsToJSON applied to the input
ToJSON ==
    /\ input.fn = "ReadoutsToJSON"
    /\ ~output.done
    /\ output' = [done |-> TRUE, value |-> ReadoutsToJSON(input.readouts, input.retrieve)]
    /\ UNCHANGED <<storeVars, input, callers, collectVars>>

\* the longest text handed to StringToTime, in tokens
MaxTokens == 3

\* A text is a sequence of tokens: a date "dddd-dd-dd" (value: its day, or -1 when
\* the digits are no calendar date), a clock time "dd:dd:dd" (value: its second of
\* the day, or -1 when the digits are no clock time), one space, or other text
\* that holds no digit.
DateText(d) == [kind |-> "date", value |-> d]
TimeText(t) == [kind |-> "time", value |-> t]
SpaceText == [kind |-> "space", value |-> 0]
OtherText == [kind |-> "other", value |-> 0]

\* dateTimeRegex.FindStringSubmatch(str) for (\d{4}-\d{2}-\d{2})? ?(\d{2}:\d{2}:\d{2})?
\* the leftmost match starts at the first token; every part of it is optional;
\* match[0], match[1], match[2] of the code are the elements 1, 2, 3 here
FindStringSubmatch(str) ==
    LET g1 == IF Len(str) >= 1 /\ str[1].kind = "date" THEN 1 ELSE 0
        sp == IF Len(str) >= g1 + 1 /\ str[g1 + 1].kind = "space" THEN 1 ELSE 0
        q == g1 + sp + 1
        g2 == IF Len(str) >= q /\ str[q].kind = "time" THEN 1 ELSE 0
    IN  <<SubSeq(str, 1, g1 + sp + g2),
          IF g1 = 1 THEN <<str[1]>> ELSE <<>>,
          IF g2 = 1 THEN <<str[q]>> ELSE <<>>>>

\* fmt.Sprintf("%s %s", a, b)
Sprintf(a, b) == a \o <<SpaceText>> \o b

\* time.ParseInLocation("2006-01-02 15:04:05", text, loc); loc: seconds east of UTC
ParseInLocation(text, loc) ==
    IF /\ Len(text) = 3
       /\ text[1].kind = "date" /\ text[1].value >= 0
       /\ text[2].kind = "space"
       /\ text[3].kind = "time" /\ text[3].value >= 0
    THEN [time |-> text[1].value * SecondsPerDay + text[3].value - loc, err |-> "nil"]
    ELSE [time |-> ZeroTime, err |-> "parse error"]

\* time.Now().Format("2006-01-02")
Today(now) == <<DateText(FormatDate(now))>>

\* StringToTime that takes the fallback for a text that holds a time and no date
StringToTimeDropsTime(str, loc, defaultTime, now) ==
    LET match == FindStringSubmatch(str)
    IN  IF match[2] # <<>> /\ match[3] # <<>> THEN ParseInLocation(match[1], loc)
        ELSE IF match[2] # <<>>
        THEN ParseInLocation(Sprintf(match[2], defaultTime), loc)
        ELSE ParseInLocation(Sprintf(Today(now), defaultTime), loc)

\* StringToTime(str, loc, defaultTime); now: the instant time.Now() returns
StringToTime(str, loc, defaultTime, now) ==
    LET match == FindStringSubmatch(str)
    IN  IF match[2] # <<>> /\ match[3] # <<>> THEN ParseInLocation(match[1], loc)
        ELSE IF match[2] # <<>>
        THEN ParseInLocation(Sprintf(match[2], defaultTime), loc)
        ELSE IF match[3] # <<>>
        THEN ParseInLocation(Sprintf(Today(now), match[3]), loc)
        ELSE ParseInLocation(Sprintf(Today(now), defaultTime), loc)

\* the tokens of the texts handed to StringToTime
Tokens == {DateText(3), DateText(-1), TimeText(4000), TimeText(-1), SpaceText, OtherText}

\* the inputs of StringToTime: the fallback "01:02:03" or one that is no clock time,
\* two zones, and a clock that reads one of two days
TimeInputs ==
    {[fn |-> "StringToTime", str |-> s, loc |-> l, defaultTime |-> d, now |-> n] :
        s \in SeqsUpTo(Tokens, MaxTokens),
        l \in {0, 3600},
        d \in {<<TimeText(3723)>>, <<OtherText>>},
        n \in {2 * SecondsPerDay - 1, 2 * SecondsPerDay}}

\* StringToTime applied to the input
ParseTime ==
    /\ input.fn = "StringToTime"
    /\ ~output.done
    /\ output' = [done |-> TRUE,
                  value |-> StringToTime(input.str, input.loc, input.defaultTime,
                                         input.now)]
    /\ UNCHANGED <<storeVars, input, callers, collectVars>>

InitFunctions ==
    /\ initialized = FALSE
    /\ db = "nil"
    /\ insertStatement = "nil"
    /\ keepAlives = 0
    /\ tables = {}
    /\ rows = <<>>
    /\ inserted = <<>>
    /\ halted = "no"
    /\ call = NoCall
    /\ input \in OptionInputs \cup JSONInputs \cup TimeInputs
    /\ output = NoOutput
    /\ callers = NoCallers
    /\ foundStart = FALSE
    /\ collected = <<>>
    /\ rChan = <<>>
    /\ tChan = <<>>

NextFunctions ==
    \/ NewOption
    \/ ToJSON
    \/ ParseTime

SpecFunctions == InitFunctions /\ [][NextFunctions]_vars

-----------------------------------------------------------------------------
(* Properties of the functions at the boundary, under SpecFunctions *)

\* NewDataRetrievalOption was applied to the input
optionDone == input.fn = "NewDataRetrievalOption" /\ output.done

(* C14 as stated: NewDataRetrievalOption(i) returns All exactly when i lies outside
   [1, Gas+Power+Totals] = [1,7], and every integer inside that range is returned
   unchanged *)
C14_AllExactlyOutsideOneToSeven ==
    optionDone =>
        /\ output.value = All <=> input.i \notin 1..(Gas + Power + Totals)
        /\ input.i \in 1..(Gas + Power + Totals) => output.value = input.i

(* C14 amended: NewDataRetrievalOption(i) returns All exactly when i lies outside
   [1, Gas+Power+Totals-1] = [1,6], so for i = 7 too, and every integer inside
   [1,6] is returned unchanged *)
C14_AllExactlyOutsideOneToSix ==
    optionDone =>
        /\ output.value = All <=> input.i \notin 1..(Gas + Power + Totals - 1)
        /\ input.i \in 1..(Gas + Power + Totals - 1) => output.value = input.i

\* the sum of the three groups was handed in and All came back
C14_Witness ==
    /\ optionDone
    /\ input.i = Gas + Power + Totals
    /\ output.value = All

\* ReadoutsToJSON was applied to the input
jsonDone == input.fn = "ReadoutsToJSON" /\ output.done

\* the fields of the groups that projection retrieve selects
selectedFields(retrieve) ==
    (IF selectsGas(retrieve) THEN {"GasReceived"} ELSE {}) \cup
    (IF selectsPower(retrieve) THEN {"PowerReceived", "PowerDelivered"} ELSE {}) \cup
    (IF selectsTotals(retrieve)
     THEN {"TotalPowerDeliveredLowTarif", "TotalPowerDeliveredPeakTarif",
           "TotalPowerReceivedLowTarif", "TotalPowerReceivedPeakTarif"}
     ELSE {})

\* object o holds exactly the fields of F, with the values record r has for them
holdsExactly(o, F, r) == DOMAIN o = F /\ \A f \in F : o[f] = r[f]

(* C15: ReadoutsToJSON emits one object per input record; for a narrowing
   projection the object holds Timestamp and exactly the fields of the selected
   groups, for All it holds every field of the record *)
C15_JSONHoldsSelectedFields ==
    jsonDone =>
        /\ Len(output.value) = Len(input.readouts)
        /\ \A k \in DOMAIN input.readouts :
               /\ input.retrieve \in DataRetrievalOptions \ {All} =>
                      holdsExactly(output.value[k],
                                   {"Timestamp"} \cup selectedFields(input.retrieve),
                                   input.readouts[k])
               /\ input.retrieve = All =>
                      holdsExactly(output.value[k], ExportedFields, input.readouts[k])

\* projection Gas applied to two records gave two objects of Timestamp and GasReceived
C15_Witness ==
    /\ jsonDone
    /\ input.retrieve = Gas
    /\ Len(input.readouts) = 2
    /\ \A k \in 1..2 : DOMAIN output.value[k] = {"Timestamp", "GasReceived"}

\* StringToTime was applied to the input, with a fallback that is a clock time
timeDone ==
    /\ input.fn = "StringToTime"
    /\ output.done
    /\ input.defaultTime[1].kind = "time"
    /\ input.defaultTime[1].value >= 0

\* the instant that reads day and second on the clock of zone loc, with no error
instantAt(day, second, loc) ==
    [time |-> day * SecondsPerDay + second - loc, err |-> "nil"]

\* the text is a calendar date / a clock time
isDate(x) == x.kind = "date" /\ x.value >= 0
isTime(x) == x.kind = "time" /\ x.value >= 0

(* C16: StringToTime returns the instant whose date is the date of str, or today
   when str holds none, and whose clock time is the time of str, or the fallback
   when str holds none, for a text of date and time, of a date alone, of a time
   alone, and for an empty text or one that holds neither *)
C16_StringToTimeFourShapes ==
    timeDone =>
        LET str == input.str
            fallback == input.defaultTime[1].value
            today == FormatDate(input.now)
        IN  /\ (Len(str) = 3 /\ isDate(str[1]) /\ str[2] = SpaceText /\ isTime(str[3])) =>
                   output.value = instantAt(str[1].value, str[3].value, input.loc)
            /\ (Len(str) = 1 /\ isDate(str[1])) =>
                   output.value = instantAt(str[1].value, fallback, input.loc)
            /\ (Len(str) = 1 /\ isTime(str[1])) =>
                   output.value = instantAt(today, str[1].value, input.loc)
            /\ (\A k \in DOMAIN str : str[k] = OtherText) =>
                   output.value = instantAt(today, fallback, input.loc)

\* a time alone was parsed in the zone one hour east, on the second of the two days
C16_Witness ==
    /\ timeDone
    /\ input.str = <<TimeText(4000)>>
    /\ input.loc = 3600
    /\ input.now = 2 * SecondsPerDay
    /\ output.value = [time |-> 2 * SecondsPerDay + 400, err |-> "nil"]

-----------------------------------------------------------------------------
(* Further properties of the bucketing, under SpecBucket *)

\* the instant of the record at index k of the input (indexes count from 0)
timestampAt(k) == getTimestamp(input.readouts[k + 1])

(* C17: every bucket getRangeIndexes returns is no wider than the interval: each
   record of a bucket is less than the interval after the bucket's first record,
   the last bucket included (records in ascending order, interval above zero) *)
C17_BucketsNarrowerThanInterval ==
    (output.done /\ input.interval > 0 /\ ascendingParsable(input.readouts)) =>
        \A b \in DOMAIN output.indexes :
            \A k \in output.indexes[b].start..output.indexes[b].end :
                timestampAt(k) - timestampAt(output.indexes[b].start) < input.interval

\* the record at index k of the input has a timestamp that parses
parsableAt(k) == timestampAt(k) # ZeroTime

(* C18: when some record of the input has an unparsable timestamp, every record
   with a parsable timestamp still lies in exactly one bucket that
   getRangeIndexes returns *)
C18_ValidRecordsKeptDespiteCorruptRow ==
    (/\ output.done
     /\ \E k \in 0..(Len(input.readouts) - 1) : ~parsableAt(k)) =>
        \A k \in 0..(Len(input.readouts) - 1) :
            parsableAt(k) =>
                Cardinality({b \in DOMAIN output.indexes :
                                output.indexes[b].start <= k /\ k <= output.indexes[b].end}) = 1

-----------------------------------------------------------------------------
(* Concurrent callers of one SQL value: every caller goes through
   ensureInitialized and initialize statement by statement, then through its
   operation; nothing in the code orders the callers *)

\* the number of concurrent callers
NumCallers == 2

\* the positions of a caller: the statement it executes next
Positions == {"check", "open", "prepareTables", "initializeInsertStatement",
              "setInitialized", "keepAlive", "operation", "returned"}

\* caller c moves to position p
goto(c, p) == callers' = [callers EXCEPT ![c].pc = p]

\* The fields of the SQL value are read and written with no lock, channel or
\* atomic between the callers (a data race). A read by a caller that wrote the
\* field itself sees a written value; a read by any other caller sees the zero
\* value of the field or a value written so far, whatever it saw of other fields.
observable(zero, current, wroteIt) == IF wroteIt THEN {current} ELSE {zero, current}

\* if !s.initialized: the caller reads the flag
CheckInitialized(c) ==
    /\ halted = "no"
    /\ callers[c].pc = "check"
    /\ \E seen \in observable(FALSE, initialized, FALSE) :
           goto(c, IF seen THEN "operation" ELSE "open")
    /\ UNCHANGED <<storeVars, input, output, collectVars>>

\* conn, err := sql.Open(...); s.db = conn
OpenConnection(c) ==
    /\ halted = "no"
    /\ callers[c].pc = "open"
    /\ db' = "conn"
    /\ callers' = [callers EXCEPT ![c].pc = "prepareTables", ![c].opened = TRUE]
    /\ UNCHANGED <<initialized, insertStatement, keepAlives, tables, rows, inserted,
                   halted, call, input, output, collectVars>>

\* s.prepareTables(): the table exists afterwards
PrepareTables(c) ==
    /\ halted = "no"
    /\ callers[c].pc = "prepareTables"
    /\ tables' = tables \cup {"readouts"}
    /\ goto(c, "initializeInsertStatement")
    /\ UNCHANGED <<initialized, db, insertStatement, keepAlives, rows, inserted,
                   halted, call, input, output, collectVars>>

\* s.initializeInsertStatement(): stmt, err := s.db.Prepare(...); s.insertStatement = stmt
InitializeInsertStatement(c) ==
    /\ halted = "no"
    /\ callers[c].pc = "initializeInsertStatement"
    /\ insertStatement' = "stmt"
    /\ callers' = [callers EXCEPT ![c].pc = "setInitialized", ![c].prepared = TRUE]
    /\ UNCHANGED <<initialized, db, keepAlives, tables, rows, inserted, halted, call,
                   input, output, collectVars>>

\* s.initialized = true
SetInitialized(c) ==
    /\ halted = "no"
    /\ callers[c].pc = "setInitialized"
    /\ initialized' = TRUE
    /\ goto(c, "keepAlive")
    /\ UNCHANGED <<db, insertStatement, keepAlives, tables, rows, inserted, halted,
                   call, input, output, collectVars>>

\* go s.keepAlive(): one more keep-alive task, and initialize returns
StartKeepAlive(c) ==
    /\ halted = "no"
    /\ callers[c].pc = "keepAlive"
    /\ keepAlives' = keepAlives + 1
    /\ goto(c, "operation")
    /\ UNCHANGED <<initialized, db, insertStatement, tables, rows, inserted, halted,
                   call, input, output, collectVars>>

\* the rest of Insert(readout) after ensureInitialized: a nil statement panics
CallInsert(c, readout) ==
    /\ halted = "no"
    /\ callers[c].pc = "operation"
    /\ callers[c].op = "Insert"
    /\ \E seen \in observable("nil", insertStatement, callers[c].prepared) :
           IF seen = "nil"
           THEN /\ halted' = "panic"
                /\ UNCHANGED <<rows, inserted>>
           ELSE /\ rows' = ExecInsert(rows, InsertArgs(readout))
                /\ inserted' = Append(inserted, readout)
                /\ UNCHANGED halted
    /\ goto(c, "returned")
    /\ UNCHANGED <<initialized, db, insertStatement, keepAlives, tables, call, input,
                   output, collectVars>>

\* the rest of GetRange after ensureInitialized: a nil connection panics
CallGetRange(c) ==
    /\ halted = "no"
    /\ callers[c].pc = "operation"
    /\ callers[c].op = "GetRange"
    /\ \E seen \in observable("nil", db, callers[c].opened) :
           halted' = IF seen = "nil" THEN "panic" ELSE halted
    /\ goto(c, "returned")
    /\ UNCHANGED <<initialized, db, insertStatement, keepAlives, tables, rows,
                   inserted, call, input, output, collectVars>>

\* a caller about to call Insert or GetRange
NewCaller(op) == [op |-> op, pc |-> "check", opened |-> FALSE, prepared |-> FALSE]

InitConc ==
    /\ initialized = FALSE
    /\ db = "nil"
    /\ insertStatement = "nil"
    /\ keepAlives = 0
    /\ tables = {}
    /\ rows = <<>>
    /\ inserted = <<>>
    /\ halted = "no"
    /\ call = NoCall
    /\ input = NoInput
    /\ output = NoOutput
    /\ callers \in [1..NumCallers -> {NewCaller(op) : op \in {"Insert", "GetRange"}}]
    /\ foundStart = FALSE
    /\ collected = <<>>
    /\ rChan = <<>>
    /\ tChan = <<>>

NextConc ==
    \/ \E c \in DOMAIN callers : CheckInitialized(c)
    \/ \E c \in DOMAIN callers : OpenConnection(c)
    \/ \E c \in DOMAIN callers : PrepareTables(c)
    \/ \E c \in DOMAIN callers : InitializeInsertStatement(c)
    \/ \E c \in DOMAIN callers : SetInitialized(c)
    \/ \E c \in DOMAIN callers : StartKeepAlive(c)
    \/ \E c \in DOMAIN callers, readout \in Readouts : CallInsert(c, readout)
    \/ \E c \in DOMAIN callers : CallGetRange(c)

SpecConc == InitConc /\ [][NextConc]_vars

\* the callers that opened a connection / prepared an insert statement
openers == {c \in DOMAIN callers : callers[c].opened}
preparers == {c \in DOMAIN callers : callers[c].prepared}

(* C19: under any interleaving of concurrent Insert and GetRange calls on one not
   yet initialized SQL value, initialize runs at most once: at most one connection
   is opened, at most one insert statement prepared, at most one keep-alive task
   started *)
C19_InitializeAtMostOnce ==
    /\ Cardinality(openers) <= 1
    /\ Cardinality(preparers) <= 1
    /\ keepAlives <= 1

-----------------------------------------------------------------------------
(* collectTelegrams: the lines of rChan gathered into telegrams on tChan *)

\* the number of lines received
MaxLines == 4

\* what line[0] of a line can be: the start of a telegram, its end, anything else
\* (readLines sends no empty line)
FirstChars == {"/", "!", "0"}

\* the n-th line received, beginning with character first
Line(first, n) == [first |-> first, n |-> n]

\* one turn of the loop without the test of foundStart
CollectFromFirstLine(first) ==
    LET line == Line(first, Len(rChan) + 1)
        telegramNow == Append(IF first = "/" THEN <<>> ELSE collected, line)
    IN  /\ Len(rChan) < MaxLines
        /\ rChan' = Append(rChan, line)
        /\ foundStart' = (foundStart \/ first = "/")
        /\ collected' = telegramNow
        /\ tChan' = IF first = "!" THEN Append(tChan, telegramNow) ELSE tChan
        /\ UNCHANGED <<storeVars, input, output, callers>>

\* one turn of the loop of collectTelegrams, for the next line of rChan;
\* collected is the variable telegram, a text kept as the sequence of its lines
Collect(first) ==
    LET line == Line(first, Len(rChan) + 1)
        found == foundStart \/ first = "/"
        emptied == IF first = "/" THEN <<>> ELSE collected
    IN  /\ Len(rChan) < MaxLines
        /\ rChan' = Append(rChan, line)
        /\ foundStart' = found
        /\ IF ~found
           THEN /\ collected' = emptied
                /\ UNCHANGED tChan
           ELSE /\ collected' = Append(emptied, line)
                /\ tChan' = IF first = "!" THEN Append(tChan, Append(emptied, line))
                            ELSE tChan
        /\ UNCHANGED <<storeVars, input, output, callers>>

InitCollect ==
    /\ initialized = FALSE
    /\ db = "nil"
    /\ insertStatement = "nil"
    /\ keepAlives = 0
    /\ tables = {}
    /\ rows = <<>>
    /\ inserted = <<>>
    /\ halted = "no"
    /\ call = NoCall
    /\ input = NoInput
    /\ output = NoOutput
    /\ callers = NoCallers
    /\ foundStart = FALSE
    /\ collected = <<>>
    /\ rChan = <<>>
    /\ tChan = <<>>

NextCollect == \E first \in FirstChars : Collect(first)

SpecCollect == InitCollect /\ [][NextCollect]_vars

\* the lines received that start a telegram
startLines == {k \in DOMAIN rChan : rChan[k].first = "/"}

(* C20: collectTelegrams ignores every line received before the first line that
   starts with '/': no telegram is sent before such a line was received, no sent
   telegram holds a line received before it, and every sent telegram begins with
   a line starting with '/' and ends with a line starting with '!' *)
C20_NothingBeforeFirstStart ==
    /\ startLines = {} => tChan = <<>>
    /\ \A t \in DOMAIN tChan :
           /\ Len(tChan[t]) >= 2
           /\ tChan[t][1].first = "/"
           /\ tChan[t][Len(tChan[t])].first = "!"
           /\ \A k \in DOMAIN tChan[t] : \E s \in startLines : s <= tChan[t][k].n

\* an end line and another line came before the first start line, then a telegram
C20_Witness ==
    /\ Len(rChan) = 4
    /\ rChan[1].first = "!"
    /\ rChan[2].first = "0"
    /\ tChan = <<<<rChan[3], rChan[4]>>>>

\* the lines received that end a telegram
endLines == {k \in DOMAIN rChan : rChan[k].first = "!"}

\* line n was received after an end line with no start line since
afterEnd(n) ==
    \E e \in endLines : e < n /\ ~\E s \in startLines : e < s /\ s <= n

(* C21: each telegram collectTelegrams sends holds exactly one end line, its last
   line; a line received after an end line and before the next start line is in
   no sent telegram; no start line is sent in more than one telegram *)
C21_OneEndLinePerTelegram ==
    /\ \A t \in DOMAIN tChan :
           /\ {k \in DOMAIN tChan[t] : tChan[t][k].first = "!"} = {Len(tChan[t])}
           /\ \A k \in DOMAIN tChan[t] : ~afterEnd(tChan[t][k].n)
    /\ \A t, u \in DOMAIN tChan :
           (t # u) => \A k \in DOMAIN tChan[t], j \in DOMAIN tChan[u] :
                          tChan[t][k].first = "/" => tChan[t][k] # tChan[u][j]

-----------------------------------------------------------------------------
(* C22: with concurrent callers, in every reachable state initialized = true
   implies that the connection and the prepared insert statement are set, and so
   Insert never executes a nil insert statement and GetRange never queries a nil
   connection (either would panic) *)
C22_InitializedImpliesUsable ==
    /\ initialized => (db # "nil" /\ insertStatement # "nil")
    /\ halted # "panic"

====
